---- MODULE Spec2Model ----
(***************************************************************************)
(* Model of backend/main.py of the openLCA Sankey plugin: the IPC gateway  *)
(* (get_client), result polling (_wait_for_result), category resolution   *)
(* (_resolve_impact_category), the Sankey endpoint (get_sankey, get_graph) *)
(* and its response shaping.                                               *)
(*                                                                         *)
(* Python values are represented as follows.  None is the string None      *)
(* below; an Optional[float] is <<>> (None) or <<v>> with v an integer     *)
(* (the engine's floats are drawn from integer values, so + and * are      *)
(* exact; a quotient is kept as a fraction [num, den]).  List positions in *)
(* responses are Python's (0-based); TLA+ sequences are 1-based.           *)
(***************************************************************************)
EXTENDS Integers, Sequences, FiniteSets, TLC

VARIABLES
    client,     \* the module global `client`: NoClient or a connection handle
    connects,   \* olca.Client(8080) constructions that succeeded so far
    gw,         \* concurrent request threads passing through get_client
    peer,       \* a handler on another thread, in get_client during the request
    rq,         \* one Sankey request at a time: parameters, locals, response
    rs,         \* category resolution: inputs and result of one call
    sh          \* response shaping: inputs and response of one call

vars == <<client, connects, gw, peer, rq, rs, sh>>

(***************************************************************************)
(* Python values                                                           *)
(***************************************************************************)
None == "<None>"

\* The default of a Query(...) parameter when get_sankey is called as a plain
\* function: a FieldInfo object (truthy, equal to no string, not a number).
FieldInfo == "<FieldInfo>"

\* bool(s) of an Optional[str]
Truthy(s) == s /= None /\ s /= ""

NoAmount == <<>>
Amt(v) == <<v>>

\* `a or 0.0` of an Optional[float]
OrZero(a) == IF a = NoAmount THEN 0 ELSE a[1]

Abs(n) == IF n < 0 THEN -n ELSE n

\* dict: a function on its keys
EmptyDict == [k \in {} |-> 0]
DictPut(d, k, v) == [x \in (DOMAIN d) \cup {k} |-> IF x = k THEN v ELSE d[x]]
DictGet(d, k, default) == IF k \in DOMAIN d THEN d[k] ELSE default

RECURSIVE SeqsUpTo(_, _)
SeqsUpTo(S, n) ==
    IF n = 0 THEN {<<>>}
    ELSE LET shorter == SeqsUpTo(S, n - 1)
         IN shorter \cup {Append(s, x) : s \in {t \in shorter : Len(t) = n - 1}, x \in S}

(***************************************************************************)
(* Bounds of the inputs                                                    *)
(***************************************************************************)
MaxCats == 2          \* length of the result's impact category list
MaxImpacts == 2       \* length of the result's total impact list

CatIds == {"c1", "c2"}
Amounts == {-2, 0, 1}

\* a category Ref of the result; the name is the engine's name of that id
CatName(id) == IF id = "c1" THEN "Climate change" ELSE None
CatRef(id) == [id |-> id, name |-> CatName(id)]
CatLists == SeqsUpTo({CatRef(id) : id \in CatIds}, MaxCats)

\* an ImpactValue: impact_category is a category id or None, amount Optional
ImpactValues ==
    [impact_category : CatIds \cup {None},
     amount : {NoAmount} \cup {Amt(a) : a \in Amounts}]
ImpactLists == SeqsUpTo(ImpactValues, MaxImpacts)

\* values of the impact_category_id parameter: absent, empty, an id, or the
\* FieldInfo default the legacy endpoint passes
CategoryIdParams == {None, ""} \cup CatIds \cup {FieldInfo}

(***************************************************************************)
(* _resolve_impact_category (main.py 153-179).  The result is the position *)
(* (1-based) in impact_cats of the category object returned, 0 for None.   *)
(***************************************************************************)

\* the loop of lines 156-158 without its early return: the last match wins
ExplicitLoopKeepsLast(impact_cats, impact_category_id, i) ==
    LET hits == {j \in i..Len(impact_cats) : impact_cats[j].id = impact_category_id}
    IN IF hits = {} THEN 0 ELSE CHOOSE j \in hits : \A k \in hits : k <= j

\* lines 156-158: the first category whose id is the explicit id, 0 if none
RECURSIVE ExplicitLoop(_, _, _)
ExplicitLoop(impact_cats, impact_category_id, i) ==
    IF i > Len(impact_cats) THEN 0
    ELSE IF impact_cats[i].id = impact_category_id THEN i
    ELSE ExplicitLoop(impact_cats, impact_category_id, i + 1)

\* lines 155-158: 0 when the id is falsy or matches nothing (falls through)
ExplicitMatch(impact_cats, impact_category_id) ==
    IF Truthy(impact_category_id)
    THEN ExplicitLoop(impact_cats, impact_category_id, 1)
    ELSE 0

\* lines 162-165
RECURSIVE BuildImpactsById(_, _)
BuildImpactsById(total_impacts_list, impacts_by_id) ==
    IF total_impacts_list = <<>> THEN impacts_by_id
    ELSE LET ti == Head(total_impacts_list)
         IN BuildImpactsById(Tail(total_impacts_list),
                IF ti.impact_category /= None
                THEN DictPut(impacts_by_id, ti.impact_category, OrZero(ti.amount))
                ELSE impacts_by_id)

\* line 171 with >= for >
BetterOrEqual(amount, best_amount) == amount >= best_amount

\* line 171: the comparison that replaces the best category so far
Better(amount, best_amount) == amount > best_amount

\* lines 167-173: <<best position, best amount>> after the loop
RECURSIVE BestLoop(_, _, _, _)
BestLoop(impact_cats, impacts_by_id, i, best) ==
    IF i > Len(impact_cats) THEN best
    ELSE LET amount == Abs(DictGet(impacts_by_id, impact_cats[i].id, 0))
         IN BestLoop(impact_cats, impacts_by_id, i + 1,
                IF Better(amount, best[2]) THEN <<i, amount>> ELSE best)

\* lines 160-179
AutoSelect(impact_cats, total_impacts_list) ==
    LET impacts_by_id == BuildImpactsById(total_impacts_list, EmptyDict)
        best == BestLoop(impact_cats, impacts_by_id, 1, <<0, 0>>)
    IN IF best[1] /= 0 THEN best[1]
       ELSE IF Len(impact_cats) > 0 THEN 1 ELSE 0

\* whether the call reads result.get_total_impacts() (line 161)
ConsultsTotals(impact_cats, impact_category_id) ==
    ExplicitMatch(impact_cats, impact_category_id) = 0

_resolve_impact_category(impact_cats, total_impacts_list, impact_category_id) ==
    LET m == ExplicitMatch(impact_cats, impact_category_id)
    IN IF m /= 0 THEN m ELSE AutoSelect(impact_cats, total_impacts_list)

(***************************************************************************)
(* The engine's Sankey graph (olca_schema.SankeyGraph)                     *)
(***************************************************************************)
MaxIndex == 1         \* node indices of the engine are 0..MaxIndex
MaxNodes == 2         \* length of sankey_graph.nodes
MaxEdges == 2         \* length of sankey_graph.edges

Indices == 0..MaxIndex

NoObj == <<>>         \* an absent (None) object; Obj(x) is a present one
Obj(x) == <<x>>

\* The engine's data of the process behind a node index: index 0 is fully
\* described, index 1 has no tech flow and no results, the others have a
\* provider without name or id and a flow without name.
TechFlowOf(i) ==
    IF i = 0 THEN Obj([provider |-> Obj([id |-> "p0", name |-> "Steel production"]),
                       flow |-> Obj([name |-> "steel"])])
    ELSE IF i = 1 THEN NoObj
    ELSE Obj([provider |-> Obj([id |-> None, name |-> None]), flow |-> NoObj])

EngineNode(i) ==
    [index |-> i,
     tech_flow |-> TechFlowOf(i),
     direct_result |-> IF i = 1 THEN NoAmount ELSE Amt(i - 1),
     total_result |-> IF i = 1 THEN NoAmount ELSE Amt(3 - i)]

EngineEdge(p, n) ==
    [provider_index |-> p, node_index |-> n,
     upstream_share |-> IF p > n THEN Amt(1) ELSE NoAmount]

NodeLists == SeqsUpTo({EngineNode(i) : i \in Indices}, MaxNodes)
EdgeLists == SeqsUpTo({EngineEdge(p, n) : p \in Indices, n \in Indices}, MaxEdges)

\* what result.get_sankey_graph() returns: no graph, or a graph
SankeyGraphs ==
    {NoObj} \cup {Obj(g) : g \in [root_index : Indices, nodes : NodeLists, edges : EdgeLists]}

(***************************************************************************)
(* Response shaping (main.py 124-132, 287-351)                             *)
(***************************************************************************)
\* lines 124-132 with the rootIndex entry left out
_empty_result_without_root ==
    [nodes |-> <<>>, links |-> <<>>, totalImpact |-> 0, impactUnit |-> "",
     impactCategory |-> ""]

\* lines 124-132
_empty_result ==
    [nodes |-> <<>>, links |-> <<>>, totalImpact |-> 0, impactUnit |-> "",
     impactCategory |-> "", rootIndex |-> 0]

\* line 292
AbsTotal(total_impact) == IF total_impact /= 0 THEN Abs(total_impact) ELSE 1

\* lines 318-319: abs(x / abs_total) * 100 as a fraction
Pct(x, abs_total) ==
    IF abs_total /= 0 THEN [num |-> Abs(x) * 100, den |-> abs_total]
    ELSE [num |-> 0, den |-> 1]

\* line 298 with positions counted from 1
PosOfOneBased(i) == i

\* line 298: the position recorded for the node at (1-based) place i
PosOf(i) == i - 1

\* lines 295-298: graph node index -> position in nodes_data (a later node
\* with the same index overwrites an earlier one)
RECURSIVE BuildIndexToPos(_, _, _)
BuildIndexToPos(nodes, i, index_to_pos) ==
    IF i > Len(nodes) THEN index_to_pos
    ELSE BuildIndexToPos(nodes, i + 1, DictPut(index_to_pos, nodes[i].index, PosOf(i)))

IndexToPos(nodes) == BuildIndexToPos(nodes, 1, EmptyDict)

\* line 321
IsRoot(node, root_index) == node.index = root_index

\* lines 300-322
ShapeNode(node, root_index, abs_total) ==
    LET tf == node.tech_flow
        provider == IF tf /= NoObj THEN tf[1].provider ELSE NoObj
        flow == IF tf /= NoObj THEN tf[1].flow ELSE NoObj
        direct == OrZero(node.direct_result)
        upstream == OrZero(node.total_result)
    IN [name |-> IF provider /= NoObj /\ Truthy(provider[1].name)
                 THEN provider[1].name ELSE "Unknown",
        flowName |-> IF flow /= NoObj /\ Truthy(flow[1].name) THEN flow[1].name ELSE "",
        direct |-> direct,
        upstream |-> upstream,
        directPct |-> Pct(direct, abs_total),
        upstreamPct |-> Pct(upstream, abs_total),
        processId |-> IF provider /= NoObj /\ Truthy(provider[1].id)
                      THEN provider[1].id ELSE "",
        isRoot |-> IsRoot(node, root_index)]

\* lines 294-322
NodesData(nodes, root_index, abs_total) ==
    [i \in 1..Len(nodes) |-> ShapeNode(nodes[i], root_index, abs_total)]

\* index_to_pos.get(k): NoPos stands for None
NoPos == -1

\* lines 325-340
RECURSIVE LinksData(_, _, _)
LinksData(edges, index_to_pos, abs_total) ==
    IF edges = <<>> THEN <<>>
    ELSE LET edge == Head(edges)
             source_pos == DictGet(index_to_pos, edge.provider_index, NoPos)
             target_pos == DictGet(index_to_pos, edge.node_index, NoPos)
             share == OrZero(edge.upstream_share)
             rest == LinksData(Tail(edges), index_to_pos, abs_total)
         IN IF source_pos /= NoPos /\ target_pos /= NoPos /\ source_pos /= target_pos
            THEN <<[source |-> source_pos, target |-> target_pos,
                    value |-> Abs(share * abs_total), share |-> share]>> \o rest
            ELSE rest

\* line 350 without the remapping: the engine's root index is returned as is
RootIndexNotRemapped(index_to_pos, root_index) == root_index

\* line 350
RootIndex(index_to_pos, root_index) == DictGet(index_to_pos, root_index, 0)

\* line 348: ref_unit or target_impact.name or "impact"
ImpactUnit(ref_unit, target_impact) ==
    IF Truthy(ref_unit) THEN ref_unit
    ELSE IF Truthy(target_impact.name) THEN target_impact.name
    ELSE "impact"

\* lines 287-351: the body returned once the graph has been read
ShapeResponse(sankey_graph, total_impact, ref_unit, target_impact) ==
    IF sankey_graph = NoObj \/ sankey_graph[1].nodes = <<>> THEN _empty_result
    ELSE LET g == sankey_graph[1]
             abs_total == AbsTotal(total_impact)
             index_to_pos == IndexToPos(g.nodes)
         IN [nodes |-> NodesData(g.nodes, g.root_index, abs_total),
             links |-> LinksData(g.edges, index_to_pos, abs_total),
             totalImpact |-> total_impact,
             impactUnit |-> ImpactUnit(ref_unit, target_impact),
             impactCategory |-> target_impact.name,
             rootIndex |-> RootIndex(index_to_pos, g.root_index)]

(***************************************************************************)
(* Idle values of the parts a specification does not exercise              *)
(***************************************************************************)
NumThreads == 2       \* request threads of the server's thread pool
Threads == 1..NumThreads

\* a thread that handles no request
ThreadIdle ==
    [pc |-> "idle", endpoint |-> "", cl |-> 0, made |-> 0, attempts |-> 0,
     engine_called |-> FALSE,
     response |-> [status |-> 0, body |-> "", detail |-> ""]]
GwIdle == [t \in Threads |-> ThreadIdle]
\* the other handler is not in get_client; made is the handle olca.Client(8080)
\* returned to it and it has not stored yet
PeerIdle == [pc |-> "idle", made |-> 0]
RsIdle == [pc |-> "idle"]
ShIdle == [pc |-> "idle"]

(***************************************************************************)
(* HTTP layer: exceptions and responses                                    *)
(***************************************************************************)
NoBody == [k \in {} |-> 0]
NoResponse == [status |-> 0, body |-> NoBody, detail |-> ""]

\* a handler's return value, sent as 200 with the value as JSON body
Ok(body) == [status |-> 200, body |-> body, detail |-> ""]

\* fastapi.HTTPException(status_code, detail) and any other exception (str(e))
HTTPException(status_code, detail) ==
    [kind |-> "HTTPException", status_code |-> status_code, detail |-> detail]
Exception(msg) == [kind |-> "Exception", status_code |-> 0, detail |-> msg]

\* the response FastAPI sends for an HTTPException that leaves the handler
Raised(exc) == [status |-> exc.status_code, body |-> NoBody, detail |-> exc.detail]

\* lines 353-357: what leaves get_sankey for an exception raised in its try block
ExceptClauses(exc) ==
    IF exc.kind = "HTTPException" THEN exc
    ELSE HTTPException(500, exc.detail)

\* what the engine's client raises when a call fails
EngineFailure == Exception("IPC call failed")
\* line 281: min_share / 100.0 with min_share the Query(0.0) default object (an
\* instance of fastapi's class Query, a FieldInfo); Python names that class
MinShareTypeError ==
    Exception("unsupported operand type(s) for /: 'Query' and 'float'")

(***************************************************************************)
(* The IPC gateway (main.py 37-50)                                         *)
(***************************************************************************)
NoClient == 0          \* `client is None`; a handle is the number of the
                       \* olca.Client construction that made it

(***************************************************************************)
(* Result polling (main.py 135-150)                                        *)
(***************************************************************************)
max_wait == 120        \* seconds
SleepsPerSecond == 2   \* time.sleep(0.5)

\* the loop condition with <= for <
WaitLimitInclusive == max_wait * SleepsPerSecond + 1

\* `waited` is counted in sleeps of 0.5 s: the loop runs while waited < max_wait
WaitLimit == max_wait * SleepsPerSecond

KeepsWaiting(waited) == waited < WaitLimit

\* result.get_state(): a ResultState
PollStates == [is_ready : BOOLEAN, error : {None, "", "solver failed"}]

(***************************************************************************)
(* The Sankey endpoints (main.py 193-363)                                  *)
(***************************************************************************)
MaxMethods == 2        \* length of the engine's impact method list

MethodIds == {"m1", "m2"}
MethodRef(id) == [id |-> id, name |-> IF id = "m1" THEN "ReCiPe" ELSE "TRACI"]
MethodLists == SeqsUpTo({MethodRef(id) : id \in MethodIds}, MaxMethods)

\* query parameters of GET /api/sankey/{system_id}; min_share and max_nodes are
\* numbers (their value only reaches the engine)
SankeyRequests ==
    [endpoint : {"sankey"},
     impact_method_id : {None, ""} \cup MethodIds,
     impact_category_id : {None, ""} \cup CatIds,
     min_share : {"0.0"}]

\* lines 361-363: get_graph calls get_sankey(system_id), so every other
\* parameter is its Query(...) default object
GraphRequest ==
    [endpoint |-> "graph", impact_method_id |-> FieldInfo,
     impact_category_id |-> FieldInfo, min_share |-> FieldInfo]

\* the loop of lines 228-231 with a comparison that is never true
MethodLoopNoMatch(impact_methods, impact_method_id, i) == 0

\* lines 228-231: the position (1-based) in impact_methods of the first method
\* whose id is impact_method_id, 0 if there is none
RECURSIVE MethodLoop(_, _, _)
MethodLoop(impact_methods, impact_method_id, i) ==
    IF i > Len(impact_methods) THEN 0
    ELSE IF impact_methods[i].id = impact_method_id THEN i
    ELSE MethodLoop(impact_methods, impact_method_id, i + 1)

\* lines 226-233: method_ref, a new Ref of the id and name of the method found,
\* or of impact_methods[0] when the id is falsy or matches no method
ResolveMethod(impact_methods, impact_method_id) ==
    LET m == IF Truthy(impact_method_id)
             THEN MethodLoop(impact_methods, impact_method_id, 1) ELSE 0
        found == IF m /= 0 THEN impact_methods[m] ELSE impact_methods[1]
    IN [id |-> found.id, name |-> found.name]

\* the graphs the engine returns in the request flow: none, one without nodes,
\* and graphs with nodes (shaping itself is exercised on all of SankeyGraphs)
FlowGraphs ==
    {NoObj,
     Obj([root_index |-> 0, nodes |-> <<>>, edges |-> <<>>]),
     Obj([root_index |-> 0, nodes |-> <<EngineNode(0)>>, edges |-> <<>>]),
     Obj([root_index |-> 1, nodes |-> <<EngineNode(1), EngineNode(0)>>,
          edges |-> <<EngineEdge(1, 0), EngineEdge(0, 0)>>])}

\* the total impact lists the engine returns in the request flow
FlowImpactLists == SeqsUpTo(ImpactValues, 1)

\* line 271
TotalImpact(total_impact_value) ==
    IF total_impact_value /= NoObj /\ OrZero(total_impact_value[1].amount) /= 0
    THEN total_impact_value[1].amount[1]
    ELSE 0

\* lines 182-190; fetch is the outcome of cl.get(ImpactCategory, id)
_get_ref_unit(fetch) ==
    IF ~fetch.raised /\ fetch.value /= NoObj /\ Truthy(fetch.value[1].ref_unit)
    THEN fetch.value[1].ref_unit
    ELSE ""

CategoryFetches ==
    {[raised |-> TRUE, value |-> NoObj],
     [raised |-> FALSE, value |-> NoObj],
     [raised |-> FALSE, value |-> Obj([ref_unit |-> None])],
     [raised |-> FALSE, value |-> Obj([ref_unit |-> "kg CO2 eq"])]}

\* what cl.get(ImpactCategory, id) gives for the categories of a method listing:
\* the full category of c1, a failure for the others
CategoryFetchOf(id) ==
    IF id = "c1" THEN [raised |-> FALSE, value |-> Obj([ref_unit |-> "kg CO2 eq"])]
    ELSE [raised |-> TRUE, value |-> NoObj]

\* the locals of a request that has not started
RqIdle ==
    [pc |-> "idle",
     req |-> GraphRequest,
     cl |-> NoClient,
     made |-> NoClient,        \* the handle olca.Client(8080) returned, not yet stored
     attempts |-> 0,           \* olca.Client(8080) calls of this request
     impact_methods |-> NoObj, \* unbound until cl.get_descriptors returned
     method_ref |-> NoObj,
     submitted |-> NoObj,      \* impact method of the setup given to calculate
     has_result |-> FALSE,     \* calculate returned a result handle
     result_error |-> None,    \* result.error of that handle
     disposed |-> 0,           \* result.dispose() calls
     used_after_dispose |-> FALSE,
     waited |-> 0,
     polls |-> 0,              \* result.get_state() calls
     last_state |-> [is_ready |-> FALSE, error |-> None],
     wait_outcome |-> "none",
     impact_cats |-> <<>>,
     target_impact |-> NoObj,
     total_impact |-> 0,
     ref_unit |-> "",
     response |-> NoResponse]

\* the handler returns a value / an exception leaves the try block of get_sankey
Return(r, body) == [r EXCEPT !.pc = "done", !.response = Ok(body)]
Raise(r, exc) == [r EXCEPT !.pc = "done", !.response = Raised(ExceptClauses(exc))]

\* a call of a method of the result handle
UseResult(r) == [r EXCEPT !.used_after_dispose = @ \/ (r.disposed > 0)]
Dispose(r) == [r EXCEPT !.disposed = @ + 1]

Rest == <<gw, peer, rs, sh>>

\* a request arrives at /api/sankey/{system_id} or /api/graph/{system_id}
Request ==
    /\ rq.pc = "idle"
    /\ \E req \in SankeyRequests \cup {GraphRequest} :
         rq' = [RqIdle EXCEPT !.pc = "get_client", !.req = req]
    /\ UNCHANGED <<client, connects, Rest>>

\* get_client (lines 40-50) takes no lock and handlers run on the threads of
\* the server's pool: its test, the call of olca.Client, the store to the
\* global and the read of the global at its return are separate steps, and the
\* steps of another handler's get_client (Peer...) fall between them.

\* line 43: if client is None
GetClientTest ==
    /\ rq.pc = "get_client"
    /\ rq' = [rq EXCEPT !.pc = IF client = NoClient THEN "construct" ELSE "return"]
    /\ UNCHANGED <<client, connects, Rest>>

\* line 45, the call: olca.Client(8080) succeeds
GetClientConnect ==
    /\ rq.pc = "construct"
    /\ connects' = connects + 1
    /\ rq' = [rq EXCEPT !.pc = "store", !.made = connects', !.attempts = @ + 1]
    /\ UNCHANGED <<client, Rest>>

\* line 45, the assignment: the new handle is stored in the global
GetClientStore ==
    /\ rq.pc = "store"
    /\ client' = rq.made
    /\ rq' = [rq EXCEPT !.pc = "return", !.made = NoClient]
    /\ UNCHANGED <<connects, Rest>>

\* lines 45-49 and 209-210: olca.Client(8080) raises, get_client returns None
GetClientFail ==
    /\ rq.pc = "construct"
    /\ rq' = [rq EXCEPT !.pc = "done", !.attempts = @ + 1,
                        !.response = Raised(HTTPException(503, "openLCA not connected"))]
    /\ UNCHANGED <<client, connects, Rest>>

\* lines 50 and 208-209: return client, the global as it is now
GetClientReturn ==
    /\ rq.pc = "return"
    /\ rq' = [rq EXCEPT !.pc = "load_system", !.cl = client]
    /\ UNCHANGED <<client, connects, Rest>>

\* line 43 in another handler: it finds no handle.  (When it finds one its
\* get_client only reads the global.)
PeerTest ==
    /\ peer.pc = "idle"
    /\ client = NoClient
    /\ peer' = [peer EXCEPT !.pc = "construct"]
    /\ UNCHANGED <<client, connects, gw, rq, rs, sh>>

\* line 45 in another handler, the call
PeerConnect ==
    /\ peer.pc = "construct"
    /\ connects' = connects + 1
    /\ peer' = [peer EXCEPT !.pc = "store", !.made = connects']
    /\ UNCHANGED <<client, gw, rq, rs, sh>>

\* lines 47-49 in another handler
PeerConnectFails ==
    /\ peer.pc = "construct"
    /\ peer' = PeerIdle
    /\ UNCHANGED <<client, connects, gw, rq, rs, sh>>

\* line 45 in another handler, the assignment
PeerStore ==
    /\ peer.pc = "store"
    /\ client' = peer.made
    /\ peer' = PeerIdle
    /\ UNCHANGED <<connects, gw, rq, rs, sh>>

\* lines 214-216
LoadSystem ==
    /\ rq.pc = "load_system"
    /\ \/ rq' = [rq EXCEPT !.pc = "get_methods"]
       \/ rq' = Raise(rq, HTTPException(404, "Product system not found"))
       \/ rq' = Raise(rq, EngineFailure)
    /\ UNCHANGED <<client, connects, Rest>>

\* lines 221-233
GetMethods ==
    /\ rq.pc = "get_methods"
    /\ \/ \E impact_methods \in MethodLists :
            IF impact_methods = <<>>
            THEN rq' = Return([rq EXCEPT !.impact_methods = Obj(impact_methods)],
                              _empty_result)
            ELSE rq' = [rq EXCEPT
                          !.pc = "calculate",
                          !.impact_methods = Obj(impact_methods),
                          !.method_ref = Obj(ResolveMethod(impact_methods,
                                                           rq.req.impact_method_id))]
       \/ rq' = Raise(rq, EngineFailure)
    /\ UNCHANGED <<client, connects, Rest>>

\* lines 238-250: cl.calculate(setup)
Calculate ==
    /\ rq.pc = "calculate"
    /\ \/ \E error \in {None, "no such system"} :
            LET r == [rq EXCEPT !.submitted = rq.method_ref, !.has_result = TRUE,
                                !.result_error = error]
            IN IF Truthy(error)
               THEN rq' = Return(r, _empty_result)
               ELSE rq' = [r EXCEPT !.pc = "poll"]
       \/ rq' = Raise([rq EXCEPT !.submitted = rq.method_ref], EngineFailure)
    /\ UNCHANGED <<client, connects, Rest>>

\* lines 138-149: one turn of the loop of _wait_for_result
Poll ==
    /\ rq.pc = "poll"
    /\ KeepsWaiting(rq.waited)
    /\ \/ \E state \in PollStates :
            LET r == [UseResult(rq) EXCEPT !.polls = @ + 1, !.last_state = state]
            IN IF state.is_ready
               THEN rq' = [r EXCEPT !.pc = "wait_returns", !.wait_outcome = "ready"]
               ELSE IF Truthy(state.error)
               THEN rq' = Raise([r EXCEPT !.wait_outcome = "error"],
                                HTTPException(500, "Calculation error: " \o state.error))
               ELSE rq' = [r EXCEPT !.waited = @ + 1]
       \/ rq' = Raise([UseResult(rq) EXCEPT !.polls = @ + 1, !.wait_outcome = "raised"],
                      EngineFailure)
    /\ UNCHANGED <<client, connects, Rest>>

\* lines 138, 150: the loop ends without a ready state
PollTimeout ==
    /\ rq.pc = "poll"
    /\ ~KeepsWaiting(rq.waited)
    /\ rq' = Raise([rq EXCEPT !.wait_outcome = "timeout"],
                   HTTPException(504, "Calculation timed out"))
    /\ UNCHANGED <<client, connects, Rest>>

\* lines 142, 250: _wait_for_result returns and its locals are gone
WaitReturns ==
    /\ rq.pc = "wait_returns"
    /\ rq' = [rq EXCEPT !.pc = "get_cats", !.waited = RqIdle.waited,
                        !.polls = RqIdle.polls, !.last_state = RqIdle.last_state]
    /\ UNCHANGED <<client, connects, Rest>>

\* lines 253-257
GetImpactCategories ==
    /\ rq.pc = "get_cats"
    /\ \/ \E impact_cats \in CatLists :
            IF impact_cats = <<>>
            THEN \/ rq' = Return(Dispose(UseResult(rq)), _empty_result)
                 \/ rq' = Raise(Dispose(UseResult(rq)), EngineFailure)
            ELSE rq' = [UseResult(rq) EXCEPT !.pc = "resolve", !.impact_cats = impact_cats]
       \/ rq' = Raise(UseResult(rq), EngineFailure)
    /\ UNCHANGED <<client, connects, Rest>>

\* lines 260-265
ResolveCategory ==
    /\ rq.pc = "resolve"
    /\ IF ConsultsTotals(rq.impact_cats, rq.req.impact_category_id)
       THEN \/ \E total_impacts \in FlowImpactLists :
                 LET pos == _resolve_impact_category(rq.impact_cats, total_impacts,
                                                     rq.req.impact_category_id)
                 IN IF pos = 0
                    THEN \/ rq' = Return(Dispose(UseResult(rq)), _empty_result)
                         \/ rq' = Raise(Dispose(UseResult(rq)), EngineFailure)
                    ELSE rq' = [UseResult(rq) EXCEPT
                                  !.pc = "get_total",
                                  !.target_impact = Obj(rq.impact_cats[pos])]
            \/ rq' = Raise(UseResult(rq), EngineFailure)
       ELSE rq' = [rq EXCEPT
                     !.pc = "get_total",
                     !.target_impact =
                         Obj(rq.impact_cats[_resolve_impact_category(
                                 rq.impact_cats, <<>>, rq.req.impact_category_id)])]
    /\ UNCHANGED <<client, connects, Rest>>

\* lines 270-271
GetTotalImpact ==
    /\ rq.pc = "get_total"
    /\ \/ \E v \in {NoObj} \cup {Obj([amount |-> a]) : a \in {NoAmount, Amt(0), Amt(-2)}} :
            rq' = [UseResult(rq) EXCEPT !.pc = "ref_unit", !.total_impact = TotalImpact(v)]
       \/ rq' = Raise(UseResult(rq), EngineFailure)
    /\ UNCHANGED <<client, connects, Rest>>

\* line 275
GetRefUnit ==
    /\ rq.pc = "ref_unit"
    /\ \E fetch \in CategoryFetches :
         rq' = [rq EXCEPT !.pc = "get_graph", !.ref_unit = _get_ref_unit(fetch)]
    /\ UNCHANGED <<client, connects, Rest>>

\* lines 278-282: building the SankeyRequest divides min_share by 100.0
SankeyRequestFails ==
    /\ rq.pc = "get_graph"
    /\ rq.req.min_share = FieldInfo
    /\ rq' = Raise(rq, MinShareTypeError)
    /\ UNCHANGED <<client, connects, Rest>>

\* lines 284-351
GetSankeyGraph ==
    /\ rq.pc = "get_graph"
    /\ rq.req.min_share /= FieldInfo
    /\ \/ \E sankey_graph \in FlowGraphs :
            rq' = Return(Dispose(UseResult(rq)),
                         ShapeResponse(sankey_graph, rq.total_impact, rq.ref_unit,
                                       rq.target_impact[1]))
       \/ rq' = Raise(UseResult(rq), EngineFailure)
       \/ rq' = Raise(Dispose(UseResult(rq)), EngineFailure)
    /\ UNCHANGED <<client, connects, Rest>>

\* the response has been sent; the next request can arrive
Complete ==
    /\ rq.pc = "done"
    /\ rq' = RqIdle
    /\ UNCHANGED <<client, connects, Rest>>

Init ==
    /\ client = NoClient
    /\ connects = 0
    /\ gw = GwIdle
    /\ peer = PeerIdle
    /\ rq = RqIdle
    /\ rs = RsIdle
    /\ sh = ShIdle

Next ==
    \/ Request
    \/ GetClientTest
    \/ GetClientConnect
    \/ GetClientStore
    \/ GetClientFail
    \/ GetClientReturn
    \/ PeerTest
    \/ PeerConnect
    \/ PeerConnectFails
    \/ PeerStore
    \/ LoadSystem
    \/ GetMethods
    \/ Calculate
    \/ Poll
    \/ PollTimeout
    \/ WaitReturns
    \/ GetImpactCategories
    \/ ResolveCategory
    \/ GetTotalImpact
    \/ GetRefUnit
    \/ SankeyRequestFails
    \/ GetSankeyGraph
    \/ Complete

Spec == Init /\ [][Next]_vars

(***************************************************************************)
(* SpecGateway: the handlers of all endpoints run on concurrent threads    *)
(* (FastAPI runs `def` handlers in a thread pool); get_client is not       *)
(* atomic.  What a handler does after get_client is one step: its engine   *)
(* calls touch no state shared between requests.                           *)
(***************************************************************************)
\* the handlers that call get_client: get_status, get_descriptors,
\* get_method_categories and get_sankey (get_graph only calls get_sankey)
Endpoints == {"status", "descriptors", "categories", "sankey"}

\* lines 70-76: the keys of type_map, and a model type that is none of them
ModelTypes == {"ProductSystem", "ImpactCategory", "ImpactMethod", "Process", "Flow"}
RequestedModelTypes == ModelTypes \cup {"Unit"}

\* the final status codes of get_sankey once it has a client (lines 212-357)
SankeyStatuses == {200, 404, 500, 504}

GwOthers == <<peer, rq, rs, sh>>

GwOk(body) == [status |-> 200, body |-> body, detail |-> ""]
GwRaised(status_code, detail) == [status |-> status_code, body |-> "", detail |-> detail]

\* a request arrives and its handler calls get_client()
GwRequest(t) ==
    /\ gw[t].pc = "idle"
    /\ \E e \in Endpoints :
         gw' = [gw EXCEPT ![t] = [ThreadIdle EXCEPT !.pc = "check", !.endpoint = e]]
    /\ UNCHANGED <<client, connects, GwOthers>>

\* line 43: if client is None
GwCheck(t) ==
    /\ gw[t].pc = "check"
    /\ gw' = [gw EXCEPT ![t].pc = IF client = NoClient THEN "construct" ELSE "return"]
    /\ UNCHANGED <<client, connects, GwOthers>>

\* line 45, the call: olca.Client(8080) succeeds
GwConstruct(t) ==
    /\ gw[t].pc = "construct"
    /\ connects' = connects + 1
    /\ gw' = [gw EXCEPT ![t].pc = "store", ![t].made = connects',
                        ![t].attempts = @ + 1]
    /\ UNCHANGED <<client, GwOthers>>

\* line 45, the assignment: the new handle is stored in the global
GwStore(t) ==
    /\ gw[t].pc = "store"
    /\ client' = gw[t].made
    /\ gw' = [gw EXCEPT ![t].pc = "return", ![t].made = NoClient]
    /\ UNCHANGED <<connects, GwOthers>>

\* lines 47-49 retried instead of returning None
GwConstructFailsRetry(t) ==
    /\ gw[t].pc = "construct"
    /\ gw[t].attempts < 3
    /\ gw' = [gw EXCEPT ![t].pc = "check", ![t].attempts = @ + 1]
    /\ UNCHANGED <<client, connects, GwOthers>>

\* lines 47-49: olca.Client(8080) raises; get_client returns None
GwConstructFails(t) ==
    /\ gw[t].pc = "construct"
    /\ gw' = [gw EXCEPT ![t].pc = "body", ![t].cl = NoClient, ![t].attempts = @ + 1]
    /\ UNCHANGED <<client, connects, GwOthers>>

\* line 50: return client
GwReturn(t) ==
    /\ gw[t].pc = "return"
    /\ gw' = [gw EXCEPT ![t].pc = "body", ![t].cl = client]
    /\ UNCHANGED <<client, connects, GwOthers>>

\* the thread's handler ends with this response
GwDone(t, engine_called, response) ==
    gw' = [gw EXCEPT ![t].pc = "done", ![t].engine_called = engine_called,
                     ![t].response = response]

NotConnected == GwRaised(503, "openLCA not connected")

\* lines 56-60
GwStatus(t) ==
    /\ gw[t].pc = "body" /\ gw[t].endpoint = "status"
    /\ IF gw[t].cl /= NoClient
       THEN GwDone(t, FALSE, GwOk([status |-> "connected", version |-> "2.6.0"]))
       ELSE GwDone(t, FALSE, GwOk([status |-> "disconnected"]))
    /\ UNCHANGED <<client, connects, GwOthers>>

\* what the engine's database holds: the descriptors of a model type, and the
\* impact categories of a method (NoObj: no such method)
DescriptorsOf(model_type) ==
    IF model_type = "ImpactMethod" THEN <<MethodRef("m1"), MethodRef("m2")>>
    ELSE IF model_type = "ImpactCategory" THEN <<CatRef("c1"), CatRef("c2")>>
    ELSE <<>>
MethodCategoriesOf(method_id) ==
    IF method_id = "m1" THEN Obj(<<CatRef("c1"), CatRef("c2")>>)
    ELSE IF method_id = "m2" THEN Obj(<<>>)
    ELSE NoObj

\* lines 66-87
GwDescriptors(t) ==
    /\ gw[t].pc = "body" /\ gw[t].endpoint = "descriptors"
    /\ IF gw[t].cl = NoClient
       THEN GwDone(t, FALSE, NotConnected)
       ELSE \E model_type \in RequestedModelTypes :
              IF model_type \notin ModelTypes
              THEN GwDone(t, FALSE, GwOk(<<>>))
              ELSE \/ GwDone(t, TRUE, GwOk(DescriptorsOf(model_type)))
                   \/ GwDone(t, TRUE, GwRaised(500, EngineFailure.detail))
    /\ UNCHANGED <<client, connects, GwOthers>>

\* lines 93-121
GwMethodCategories(t) ==
    /\ gw[t].pc = "body" /\ gw[t].endpoint = "categories"
    /\ IF gw[t].cl = NoClient
       THEN GwDone(t, FALSE, NotConnected)
       ELSE \/ GwDone(t, TRUE, GwRaised(500, EngineFailure.detail))
            \/ \E method_id \in MethodIds \cup {"m0"} :
                 LET method == MethodCategoriesOf(method_id)
                 IN IF method = NoObj
                    THEN GwDone(t, TRUE, GwOk(<<>>))
                    ELSE GwDone(t, TRUE,
                            GwOk([i \in 1..Len(method[1]) |->
                                    [id |-> method[1][i].id,
                                     name |-> method[1][i].name,
                                     refUnit |-> _get_ref_unit(
                                         CategoryFetchOf(method[1][i].id))]]))
    /\ UNCHANGED <<client, connects, GwOthers>>

\* lines 208-357 and 361-363
GwSankey(t) ==
    /\ gw[t].pc = "body" /\ gw[t].endpoint = "sankey"
    /\ IF gw[t].cl = NoClient
       THEN GwDone(t, FALSE, NotConnected)
       ELSE \E status \in SankeyStatuses :
              GwDone(t, TRUE, [status |-> status, body |-> "", detail |-> ""])
    /\ UNCHANGED <<client, connects, GwOthers>>

\* the response has been sent; the thread is free for the next request
GwComplete(t) ==
    /\ gw[t].pc = "done"
    /\ gw' = [gw EXCEPT ![t] = ThreadIdle]
    /\ UNCHANGED <<client, connects, GwOthers>>

InitGateway ==
    /\ client = NoClient
    /\ connects = 0
    /\ gw = GwIdle
    /\ peer = PeerIdle
    /\ rq = RqIdle
    /\ rs = RsIdle
    /\ sh = ShIdle

NextGateway ==
    \E t \in Threads :
        \/ GwRequest(t)
        \/ GwCheck(t)
        \/ GwConstruct(t)
        \/ GwStore(t)
        \/ GwConstructFails(t)
        \/ GwReturn(t)
        \/ GwStatus(t)
        \/ GwDescriptors(t)
        \/ GwMethodCategories(t)
        \/ GwSankey(t)
        \/ GwComplete(t)

SpecGateway == InitGateway /\ [][NextGateway]_vars

(***************************************************************************)
(* SpecResolve: one call of _resolve_impact_category on drawn inputs       *)
(***************************************************************************)
InitResolve ==
    /\ rs \in [pc : {"call"}, impact_cats : CatLists, total_impacts : ImpactLists,
               impact_category_id : CategoryIdParams,
               pos : {0}, consulted : {FALSE}]
    /\ sh = ShIdle
    /\ client = NoClient
    /\ connects = 0
    /\ gw = GwIdle
    /\ peer = PeerIdle
    /\ rq = RqIdle

Resolve ==
    /\ rs.pc = "call"
    /\ rs' = [rs EXCEPT
                !.pc = "returned",
                !.pos = _resolve_impact_category(rs.impact_cats, rs.total_impacts,
                                                 rs.impact_category_id),
                !.consulted = ConsultsTotals(rs.impact_cats, rs.impact_category_id)]
    /\ UNCHANGED <<client, connects, gw, peer, rq, sh>>

NextResolve == Resolve

SpecResolve == InitResolve /\ [][NextResolve]_vars

(***************************************************************************)
(* SpecShape: the response built from one graph read from the engine       *)
(***************************************************************************)
\* the category, its total and its unit that the request resolved before it
\* read the graph
ShapeContexts ==
    {[total_impact |-> 0, ref_unit |-> "", target_impact |-> CatRef("c2")],
     [total_impact |-> -2, ref_unit |-> "kg CO2 eq", target_impact |-> CatRef("c1")]}

InitShape ==
    /\ sh \in [pc : {"call"}, sankey_graph : SankeyGraphs, ctx : ShapeContexts,
               body : {_empty_result}]
    /\ rs = RsIdle
    /\ client = NoClient
    /\ connects = 0
    /\ gw = GwIdle
    /\ peer = PeerIdle
    /\ rq = RqIdle

Shape ==
    /\ sh.pc = "call"
    /\ sh' = [sh EXCEPT
                !.pc = "returned",
                !.body = ShapeResponse(sh.sankey_graph, sh.ctx.total_impact,
                                       sh.ctx.ref_unit, sh.ctx.target_impact)]
    /\ UNCHANGED <<client, connects, gw, peer, rq, rs>>

NextShape == Shape

SpecShape == InitShape /\ [][NextShape]_vars

(***************************************************************************)
(* Properties                                                              *)
(***************************************************************************)
MaxOf(S) == CHOOSE x \in S : \A y \in S : y <= x
MinOf(S) == CHOOSE x \in S : \A y \in S : x <= y

\* positions of impact_cats whose id is id
PositionsWithId(impact_cats, id) == {i \in 1..Len(impact_cats) : impact_cats[i].id = id}

\* the absolute total impact of the category with this id: the amount of the
\* last total-impact entry of that category, 0 without entry or amount
AbsImpactOf(total_impacts, id) ==
    LET entries == {i \in 1..Len(total_impacts) : total_impacts[i].impact_category = id}
    IN IF entries = {} THEN 0
       ELSE LET a == total_impacts[MaxOf(entries)].amount
            IN IF a = NoAmount THEN 0 ELSE Abs(a[1])

\* C3: given a non-empty category list and an explicit (non-empty) category id
\* that is the id of some category of the list, _resolve_impact_category returns
\* the first category with that id and does not read the total impacts; given an
\* explicit id that matches no category it returns what it returns for no id
\* (auto-selection), which is a category of the list, never None.
C3_ExplicitCategory ==
    (rs.pc = "returned" /\ rs.impact_cats /= <<>> /\ Truthy(rs.impact_category_id)) =>
        LET hits == PositionsWithId(rs.impact_cats, rs.impact_category_id)
        IN IF hits /= {}
           THEN rs.pos = MinOf(hits) /\ ~rs.consulted
           ELSE /\ rs.pos = _resolve_impact_category(rs.impact_cats, rs.total_impacts, None)
                /\ rs.pos \in 1..Len(rs.impact_cats)
                /\ rs.consulted

\* the explicit id names the second category of the list only, and auto-selection
\* on the same totals picks the first
C3_Witness ==
    /\ rs.pc = "returned"
    /\ Truthy(rs.impact_category_id)
    /\ PositionsWithId(rs.impact_cats, rs.impact_category_id) = {2}
    /\ AutoSelect(rs.impact_cats, rs.total_impacts) = 1
    /\ AbsImpactOf(rs.total_impacts, rs.impact_cats[1].id) > 0
    /\ rs.pos = 2
    /\ ~rs.consulted

\* C4: without an explicit category id, _resolve_impact_category returns a
\* category of the list whose absolute total impact is at least that of every
\* category of the list and greater than that of every earlier one (no entry or
\* a null amount counts as 0); when every absolute total impact is 0 it returns
\* the first category; it returns None only for an empty list.
C4_AutoSelection ==
    (rs.pc = "returned" /\ ~Truthy(rs.impact_category_id)) =>
        LET cats == rs.impact_cats
            imp(i) == AbsImpactOf(rs.total_impacts, cats[i].id)
        IN /\ (rs.pos = 0) <=> (cats = <<>>)
           /\ cats /= <<>> =>
                /\ rs.pos \in 1..Len(cats)
                /\ \A j \in 1..Len(cats) : imp(j) <= imp(rs.pos)
                /\ (imp(rs.pos) > 0) => \A j \in 1..(rs.pos - 1) : imp(j) < imp(rs.pos)
                /\ (\A j \in 1..Len(cats) : imp(j) = 0) => rs.pos = 1

\* two categories of different ids with equal non-zero absolute impacts (a tie):
\* the earlier one is returned; the impact of the later one is a negative amount
C4_Witness ==
    /\ rs.pc = "returned"
    /\ rs.impact_category_id = None
    /\ Len(rs.impact_cats) = 2
    /\ rs.impact_cats[1].id /= rs.impact_cats[2].id
    /\ AbsImpactOf(rs.total_impacts, rs.impact_cats[1].id) = 2
    /\ AbsImpactOf(rs.total_impacts, rs.impact_cats[2].id) = 2
    /\ rs.pos = 1

\* the graph and the body of a shaped (non-empty) response
Shaped == sh.pc = "returned" /\ sh.sankey_graph /= NoObj /\ sh.sankey_graph[1].nodes /= <<>>

\* C7: shaping keeps the engine's nodes in number and order; every link's source
\* and target are valid positions of nodes whose engine indices are the edge's
\* provider_index and node_index, and differ; the links are, in the engine's
\* order, the edges whose two endpoints are indices of returned nodes and do not
\* map to the same position.
C7_Remapping ==
    Shaped =>
        LET g == sh.sankey_graph[1]
            n == Len(g.nodes)
            present(ix) == \E i \in 1..n : g.nodes[i].index = ix
            keep(e) == /\ present(e.provider_index)
                       /\ present(e.node_index)
                       /\ e.provider_index /= e.node_index
            kept == SelectSeq(g.edges, keep)
            body == sh.body
        IN /\ Len(body.nodes) = n
           /\ \A i \in 1..n :
                /\ body.nodes[i].direct = OrZero(g.nodes[i].direct_result)
                /\ body.nodes[i].upstream = OrZero(g.nodes[i].total_result)
           /\ Len(body.links) = Len(kept)
           /\ \A k \in 1..Len(body.links) :
                LET l == body.links[k]
                    e == kept[k]
                IN /\ l.source \in 0..(n - 1)
                   /\ l.target \in 0..(n - 1)
                   /\ l.source /= l.target
                   /\ g.nodes[l.source + 1].index = e.provider_index
                   /\ g.nodes[l.target + 1].index = e.node_index
                   /\ l.share = OrZero(e.upstream_share)

\* the engine's indices are not the list positions (node 1 comes first), the
\* first edge is a self-loop and is omitted, the second is kept
C7_Witness ==
    /\ Shaped
    /\ Len(sh.sankey_graph[1].nodes) = 2
    /\ sh.sankey_graph[1].nodes[1].index = 1
    /\ sh.sankey_graph[1].nodes[2].index = 0
    /\ Len(sh.sankey_graph[1].edges) = 2
    /\ sh.sankey_graph[1].edges[1].provider_index = sh.sankey_graph[1].edges[1].node_index
    /\ Len(sh.body.links) = 1
    /\ sh.body.links[1].source = 0
    /\ sh.body.links[1].target = 1

\* positions (1-based) of the engine nodes whose index is the graph's root_index
RootPlaces ==
    IF sh.sankey_graph = NoObj THEN {}
    ELSE LET g == sh.sankey_graph[1]
         IN {i \in 1..Len(g.nodes) : g.nodes[i].index = g.root_index}

\* C9 as stated: in every non-error response rootIndex is a valid position of
\* the node list, the node there has isRoot true and no other node has.
C9_Original ==
    sh.pc = "returned" =>
        LET body == sh.body
        IN /\ body.rootIndex \in 0..(Len(body.nodes) - 1)
           /\ \A i \in 1..Len(body.nodes) : body.nodes[i].isRoot <=> (i = body.rootIndex + 1)

\* C9 amended: a node has isRoot true exactly when its engine index is the
\* graph's root_index; rootIndex is the position of the last such node, and 0
\* when there is none (a root_index of no returned node, the empty result); so
\* rootIndex and the flags agree as stated exactly when one returned node has
\* the root index.
C9_RootAgreement ==
    sh.pc = "returned" =>
        LET body == sh.body
        IN /\ \A i \in 1..Len(body.nodes) : body.nodes[i].isRoot <=> (i \in RootPlaces)
           /\ body.nodes = <<>> => body.rootIndex = 0
           /\ body.nodes /= <<>> =>
                body.rootIndex = (IF RootPlaces = {} THEN 0 ELSE MaxOf(RootPlaces) - 1)
           /\ (body.nodes /= <<>> /\ Cardinality(RootPlaces) = 1) =>
                /\ body.rootIndex \in 0..(Len(body.nodes) - 1)
                /\ \A i \in 1..Len(body.nodes) :
                     body.nodes[i].isRoot <=> (i = body.rootIndex + 1)

\* the root is the second node of two, and its engine index is not its position
C9_Witness ==
    /\ Shaped
    /\ RootPlaces = {2}
    /\ sh.sankey_graph[1].root_index = 0
    /\ sh.body.rootIndex = 1
    /\ sh.body.nodes[2].isRoot
    /\ ~sh.body.nodes[1].isRoot

\* C1: _wait_for_result calls get_state at most 240 times; it returns at the
\* first poll whose state is ready, raises HTTP 500 "Calculation error: ..." at
\* the first poll whose state is not ready and carries an error, and raises
\* HTTP 504 "Calculation timed out" exactly when 240 polls in a row were neither
\* ready nor errored; the 504 is the response of both Sankey endpoints.
C1_Polling ==
    /\ rq.polls <= 240
    /\ rq.pc = "poll" => (rq.wait_outcome = "none" /\ rq.polls = rq.waited)
    /\ rq.wait_outcome \in {"none", "ready", "error", "timeout", "raised"}
    /\ (rq.pc = "wait_returns") <=> (rq.wait_outcome = "ready" /\ rq.polls > 0)
    /\ rq.pc = "wait_returns" =>
          /\ rq.last_state.is_ready
          /\ rq.polls = rq.waited + 1
          /\ rq.waited < 240
    /\ rq.wait_outcome = "error" =>
          /\ ~rq.last_state.is_ready /\ Truthy(rq.last_state.error)
          /\ rq.polls = rq.waited + 1
          /\ rq.waited < 240
          /\ rq.pc = "done"
          /\ rq.response.status = 500
          /\ rq.response.detail = "Calculation error: " \o rq.last_state.error
    /\ rq.wait_outcome = "raised" => (rq.polls = rq.waited + 1 /\ rq.waited < 240)
    /\ rq.wait_outcome = "timeout" =>
          /\ rq.polls = 240 /\ rq.waited = 240
          /\ rq.pc = "done"
          /\ rq.response.status = 504
          /\ rq.response.detail = "Calculation timed out"
    /\ (rq.pc = "done" /\ rq.waited = 240) => rq.wait_outcome = "timeout"

\* the legacy endpoint answers 504 after 240 polls that were not ready
C1_Witness ==
    /\ rq.pc = "done"
    /\ rq.req.endpoint = "graph"
    /\ rq.wait_outcome = "timeout"
    /\ rq.polls = 240
    /\ rq.response.status = 504

\* C2 as stated: a request during which the engine reported a calculation
\* error, on the handle returned by calculate or at a state poll, ends with HTTP
\* 500 and the engine's message in the detail.
C2_Original ==
    rq.pc = "done" =>
        /\ Truthy(rq.result_error) =>
              /\ rq.response.status = 500
              /\ rq.response.detail \in {rq.result_error,
                                         "Calculation error: " \o rq.result_error}
        /\ rq.wait_outcome = "error" =>
              /\ rq.response.status = 500
              /\ rq.response.detail = "Calculation error: " \o rq.last_state.error

\* C5 as stated: olca.Client(8080) succeeds at most once, a handle that is set
\* is never replaced, and all handlers hold the same handle.
C5_Original ==
    /\ connects <= 1
    /\ \A t, u \in Threads :
         (gw[t].pc \in {"body", "done"} /\ gw[u].pc \in {"body", "done"}
          /\ gw[t].cl /= NoClient /\ gw[u].cl /= NoClient) => gw[t].cl = gw[u].cl

\* C6: a handler whose olca.Client(8080) call raised made that one attempt only
\* and got no handle; it makes no engine call and answers {"status":
\* "disconnected"} with 200 on the status endpoint and 503 on the descriptor,
\* method-category and Sankey endpoints; a failed attempt leaves the global
\* handle unset (it is set by successful constructions only).
C6_Disconnected ==
    /\ connects = 0 => client = NoClient
    /\ client \in 0..connects
    /\ \A t \in Threads :
         /\ gw[t].attempts <= 1
         /\ (gw[t].pc \in {"body", "done"} /\ gw[t].cl = NoClient) => gw[t].attempts = 1
         /\ (gw[t].pc = "done" /\ gw[t].cl = NoClient) =>
               /\ ~gw[t].engine_called
               /\ IF gw[t].endpoint = "status"
                  THEN /\ gw[t].response.status = 200
                       /\ gw[t].response.body = [status |-> "disconnected"]
                  ELSE /\ gw[t].response.status = 503
                       /\ gw[t].response.detail = "openLCA not connected"

\* no connection was ever made; one thread answered the Sankey endpoint with
\* 503 and the other the status endpoint with "disconnected"
C6_Witness ==
    /\ connects = 0
    /\ client = NoClient
    /\ \E t, u \in Threads :
         /\ gw[t].pc = "done" /\ gw[t].endpoint = "sankey"
         /\ gw[t].attempts = 1 /\ gw[t].response.status = 503
         /\ gw[u].pc = "done" /\ gw[u].endpoint = "status"
         /\ gw[u].attempts = 1 /\ gw[u].response.status = 200

\* C8: every 200 response of /api/sankey and /api/graph is an object with
\* exactly the keys nodes, links, totalImpact, impactUnit, impactCategory and
\* rootIndex; one without nodes has no links, totalImpact 0, empty unit and
\* category and rootIndex 0.
C8_ResponseKeys ==
    (rq.pc = "done" /\ rq.response.status = 200) =>
        LET body == rq.response.body
        IN /\ DOMAIN body = {"nodes", "links", "totalImpact", "impactUnit",
                             "impactCategory", "rootIndex"}
           /\ body.nodes = <<>> =>
                /\ body.links = <<>>
                /\ body.totalImpact = 0
                /\ body.impactUnit = ""
                /\ body.impactCategory = ""
                /\ body.rootIndex = 0

\* a shaped graph with nodes and a link is returned by /api/sankey
C8_Witness ==
    /\ rq.pc = "done"
    /\ rq.req.endpoint = "sankey"
    /\ rq.response.status = 200
    /\ Len(rq.response.body.nodes) = 2
    /\ Len(rq.response.body.links) = 1
    /\ rq.disposed = 1

\* C10 as stated: a request that got a result handle from a successful
\* submission has disposed it exactly once when it completes, and calls no
\* method of the result after disposing it.
C10_Original ==
    (rq.pc = "done" /\ rq.has_result /\ ~Truthy(rq.result_error)) =>
        (rq.disposed = 1 /\ ~rq.used_after_dispose)

\* positions (1-based) of the methods of the list whose id equals the parameter
MethodPositions(impact_methods, impact_method_id) ==
    {i \in 1..Len(impact_methods) : impact_methods[i].id = impact_method_id}

\* C11: once the engine's method list has been read, a request with an empty
\* list has ended with the empty result and has submitted no calculation; a
\* request with a non-empty list submits a calculation (no error response comes
\* out of the resolution), and the method of the submitted setup is the method
\* of the list whose id equals the impact_method_id parameter when there is one,
\* and the first method of the list when the parameter is absent or equals no
\* id of the list.  No calculation is submitted before the list has been read.
C11_MethodResolution ==
    /\ rq.impact_methods = NoObj => (rq.submitted = NoObj /\ ~rq.has_result)
    /\ rq.impact_methods /= NoObj =>
         LET impact_methods == rq.impact_methods[1]
             matching == MethodPositions(impact_methods, rq.req.impact_method_id)
         IN IF impact_methods = <<>>
            THEN /\ rq.pc = "done"
                 /\ rq.response = Ok(_empty_result)
                 /\ rq.submitted = NoObj
                 /\ ~rq.has_result
            ELSE /\ rq.pc = "calculate" => rq.response = NoResponse
                 /\ rq.pc /= "calculate" => rq.submitted /= NoObj
                 /\ rq.submitted /= NoObj =>
                      IF matching /= {}
                      THEN /\ rq.submitted[1].id = rq.req.impact_method_id
                           /\ \E i \in matching :
                                rq.submitted[1].name = impact_methods[i].name
                      ELSE /\ rq.submitted[1].id = impact_methods[1].id
                           /\ rq.submitted[1].name = impact_methods[1].name

\* /api/sankey was asked for method m2, the second of the engine's two methods,
\* and the calculation was submitted with m2
C11_Witness ==
    /\ rq.req.endpoint = "sankey"
    /\ rq.req.impact_method_id = "m2"
    /\ rq.impact_methods = Obj(<<MethodRef("m1"), MethodRef("m2")>>)
    /\ rq.has_result
    /\ rq.submitted = Obj([id |-> "m2", name |-> "TRACI"])

====
